---- MODULE Spec2Model ----
(***************************************************************************)
(* DocumentQA: the TF-IDF retrieval index (documents/services/retriever.py)*)
(* over the Document table (documents/models.py).                          *)
(*                                                                         *)
(* Texts are strings; the vectorizer's analyzer (lower-casing, the token   *)
(* pattern \b\w\w+\b, English stop words, unigrams and bigrams), the       *)
(* smoothed idf, the l2 norm and the cosine are computed term by term.     *)
(* Floating point weights are fixed-point integers: idf in hundredths,     *)
(* scores in hundredths (0 .. 100 stands for 0.0 .. 1.0).                  *)
(***************************************************************************)
EXTENDS Integers, Sequences, FiniteSets, TLC

VARIABLES
    store,              \* Document table in Meta.ordering order: <<[id, title, content], ...>>
    next_id,            \* the table's auto-increment primary key
    vectorizer,         \* self._vectorizer
    tfidf_matrix,       \* self._tfidf_matrix
    document_ids,       \* self._document_ids
    document_titles,    \* self._document_titles
    document_previews,  \* self._document_previews
    is_indexed,         \* self._is_indexed
    tie_order,          \* how this build's np.argsort orders equal keys
    changes,            \* rows written or deleted so far, in either table
    call,               \* the last operation that ended: its arguments, the
                        \* retriever's fields before it, and its outcome
    response,           \* what the last view, admin or service handler answered
    _retriever_instance,\* the module global: 0 is None, else the instance it names
    instances,          \* DocumentRetriever() objects constructed so far
    pc,                 \* each thread's position in the function it is running
    frame,              \* each thread's local variables
    questions,          \* Question table, newest first:
                        \* <<[id, text, answer, answered_at, related_documents], ...>>
    _initialized        \* QAChainService._initialized of the process's service

vars == <<store, next_id, vectorizer, tfidf_matrix, document_ids,
          document_titles, document_previews, is_indexed, tie_order, changes, call,
          response, _retriever_instance, instances, pc, frame, questions,
          _initialized>>

-----------------------------------------------------------------------------
(* Bounds of the model *)

MaxDocs == 2

MaxId == MaxDocs + 1

MaxChanges == 2

(* Program constants *)

PreviewLen == 200

DefaultTopK == 3

-----------------------------------------------------------------------------
(* Inputs *)

LongContent ==
    "ml ai ........................................................................................................................................................................................................ cloud"

(* what a client writes into a Document row *)
DocInputs == {[title |-> "ML Basics", content |-> "ML ai"],
              [title |-> "Stop Words", content |-> "the a"],
              [title |-> "Long Read", content |-> LongContent]}

Contents == {d.content : d \in DocInputs}

Questions == {"Cloud ai", "the"}

MinScores == {0, 50, 100}

(* equal keys of an argsort: in index order (a stable sort), or mirrored *)
TieOrders == {"stable", "mirrored"}

TopKs == {1, 2, DefaultTopK}

Texts == Contents \cup Questions \cup {""}

-----------------------------------------------------------------------------
(* sklearn's analyzer, as TfidfVectorizer(stop_words='english',            *)
(* ngram_range=(1, 2)) builds it                                           *)

NonWord == {" ", ",", ".", "-"}

StopWords == {"the", "is", "of", "and"}

Lower(ch) ==
    CASE ch = "A" -> "a" [] ch = "C" -> "c" [] ch = "I" -> "i"
      [] ch = "L" -> "l" [] ch = "M" -> "m" [] OTHER -> ch

RECURSIVE Lowercase(_)
Lowercase(s) == IF s = "" THEN "" ELSE Lower(Head(s)) \o Lowercase(Tail(s))

IsWordChar(s, i) == SubSeq(s, i, i) \notin NonWord

(* the matches of \b\w\w+\b: the maximal runs of word characters, two or more long *)
TokenStarts(s) ==
    {i \in 1..Len(s) : IsWordChar(s, i) /\ (i = 1 \/ ~IsWordChar(s, i - 1))}

TokenEnd(s, i) ==
    CHOOSE j \in i..Len(s) :
        /\ \A x \in i..j : IsWordChar(s, x)
        /\ j = Len(s) \/ ~IsWordChar(s, j + 1)

Tokenize(s) ==
    LET starts == {i \in TokenStarts(s) : TokenEnd(s, i) > i}
        nth(p) == CHOOSE i \in starts : Cardinality({j \in starts : j < i}) = p - 1
    IN  [p \in 1..Cardinality(starts) |-> Lowercase(SubSeq(s, nth(p), TokenEnd(s, nth(p))))]

WordNgrams(s) ==
    LET toks == SelectSeq(Tokenize(s), LAMBDA w : w \notin StopWords)
        bigrams == [i \in 1..(Len(toks) - 1) |-> toks[i] \o " " \o toks[i + 1]]
    IN  toks \o bigrams

AnalyzeTable == {<<s, WordNgrams(s)>> : s \in Texts}

(* build_analyzer()(s), looked up in the table of the texts in use *)
Analyze(s) == (CHOOSE p \in AnalyzeTable : p[1] = s)[2]

Range(f) == {f[i] : i \in DOMAIN f}

TermCount(feats, t) == Cardinality({i \in DOMAIN feats : feats[i] = t})

-----------------------------------------------------------------------------
(* Fixed-point arithmetic *)

LnCenti == <<0, 69, 110, 139, 161, 179, 195, 208>>

RECURSIVE Newton(_, _)
Newton(n, r) ==
    LET r2 == (r + n \div r) \div 2
    IN  IF r2 >= r THEN r ELSE Newton(n, r2)

ISqrt(n) == IF n <= 0 THEN 0 ELSE Newton(n, n)

RECURSIVE SumOver(_, _)
SumOver(S, f) ==
    IF S = {} THEN 0
    ELSE LET x == CHOOSE y \in S : TRUE
         IN  f[x] + SumOver(S \ {x}, f)

-----------------------------------------------------------------------------
(* TfidfVectorizer and cosine_similarity *)

EmptyFn == [t \in {} |-> 0]

NoneVectorizer == [present |-> FALSE, fitted |-> FALSE, idf |-> EmptyFn]

NewVectorizer == [present |-> TRUE, fitted |-> FALSE, idf |-> EmptyFn]

NoneMatrix == [present |-> FALSE, rows |-> <<>>]

(* idf(t) = ln((1 + n) / (1 + df(t))) + 1, in hundredths *)
Idf(n, df) == LnCenti[1 + n] - LnCenti[1 + df] + 100

Features(contents) == [i \in DOMAIN contents |-> Analyze(contents[i])]

Vocabulary(feats) == UNION {Range(feats[i]) : i \in DOMAIN feats}

DocFreq(feats, t) == Cardinality({i \in DOMAIN feats : t \in Range(feats[i])})

IdfVector(feats, vocab) == [t \in vocab |-> Idf(Len(feats), DocFreq(feats, t))]

(* one row of weights tf * idf per document; the l2 norm is applied in Cosine *)
Rows(feats, idf) ==
    [i \in DOMAIN feats |-> [t \in DOMAIN idf |-> TermCount(feats[i], t) * idf[t]]]

Fitted(feats, idf) ==
    [raised |-> FALSE,
     vectorizer |-> [present |-> TRUE, fitted |-> TRUE, idf |-> idf],
     matrix |-> [present |-> TRUE, rows |-> Rows(feats, idf)]]

Fit(feats, vocab) ==
    IF vocab = {}
    THEN [raised |-> TRUE, vectorizer |-> NewVectorizer, matrix |-> NoneMatrix]
    ELSE Fitted(feats, IdfVector(feats, vocab))

(* fit_transform(contents): ValueError("empty vocabulary") when no document has a term *)
FitTransform(contents) == Fit(Features(contents), Vocabulary(Features(contents)))

(* transform([question]): terms outside the fitted vocabulary are ignored *)
Transform(vec, question) ==
    [t \in DOMAIN vec.idf |-> TermCount(Analyze(question), t) * vec.idf[t]]

Dot(u, v) == SumOver(DOMAIN u, [t \in DOMAIN u |-> u[t] * v[t]])

Norm(u) == ISqrt(Dot(u, u))

Ratio(dot, nu, nv) == IF nu = 0 \/ nv = 0 THEN 0 ELSE (dot * 100) \div (nu * nv)

(* cosine of two weight vectors, in hundredths, nu being Norm(u); a zero vector scores 0 *)
Cosine(u, nu, v) == Ratio(Dot(u, v), nu, Norm(v))

(* cosine_similarity(question_vector, matrix).flatten(): one score per row *)
RECURSIVE RowScores(_, _, _, _)
RowScores(qv, nq, rows, n) ==
    IF n = 0 THEN <<>>
    ELSE Append(RowScores(qv, nq, rows, n - 1), Cosine(qv, nq, rows[n]))

CosineSimilarity(qv, matrix) == RowScores(qv, Norm(qv), matrix.rows, Len(matrix.rows))

(* np.argsort(a): ascending by value; equal values in the order tie gives them *)
Argsort(a, tie) ==
    LET first(i, j) == IF tie = "stable" THEN i < j ELSE j < i
        before(i, j) == a[i] < a[j] \/ (a[i] = a[j] /\ first(i, j))
        pos(i) == 1 + Cardinality({j \in DOMAIN a : before(j, i)})
    IN  [p \in DOMAIN a |-> CHOOSE i \in DOMAIN a : pos(i) = p]

Reverse(s) == [i \in DOMAIN s |-> s[Len(s) + 1 - i]]

(* the Python slice s[:k] *)
Take(s, k) ==
    LET stop == IF k >= 0 THEN k ELSE Len(s) + k
    IN  SubSeq(s, 1, IF stop < 0 THEN 0 ELSE IF stop < Len(s) THEN stop ELSE Len(s))

-----------------------------------------------------------------------------
(* DocumentRetriever *)

Self == [vectorizer        |-> vectorizer,
         tfidf_matrix      |-> tfidf_matrix,
         document_ids      |-> document_ids,
         document_titles   |-> document_titles,
         document_previews |-> document_previews,
         is_indexed        |-> is_indexed]

(* Cleared with line 46 left out: the flag keeps its value *)
ClearedKeepsFlag ==
    [vectorizer        |-> NoneVectorizer,
     tfidf_matrix      |-> NoneMatrix,
     document_ids      |-> <<>>,
     document_titles   |-> <<>>,
     document_previews |-> <<>>,
     is_indexed        |-> is_indexed]

(* __init__, and what clear_index and the empty-table branch assign *)
Cleared == [vectorizer        |-> NoneVectorizer,
            tfidf_matrix      |-> NoneMatrix,
            document_ids      |-> <<>>,
            document_titles   |-> <<>>,
            document_previews |-> <<>>,
            is_indexed        |-> FALSE]

(* Preview as a plain cut at 200 characters: content[:200] *)
PreviewCut(content) ==
    IF Len(content) > PreviewLen THEN SubSeq(content, 1, PreviewLen) ELSE content

(* content[:200] + '...' if len(content) > 200 else content *)
Preview(content) ==
    IF Len(content) > PreviewLen THEN SubSeq(content, 1, PreviewLen) \o "..." ELSE content

(* lines 54-67 of index_documents: the three lists refilled, a new vectorizer made *)
Filled(self, documents) ==
    [self EXCEPT !.document_ids = [i \in DOMAIN documents |-> documents[i].id],
                 !.document_titles = [i \in DOMAIN documents |-> documents[i].title],
                 !.document_previews =
                     [i \in DOMAIN documents |-> Preview(documents[i].content)],
                 !.vectorizer = NewVectorizer]

(* lines 73-76: fit_transform raises, or the matrix and the flag are set *)
Fill(filled, fit) ==
    IF fit.raised
    THEN [self |-> filled, raised |-> TRUE, count |-> -1]
    ELSE [self |-> [filled EXCEPT !.vectorizer = fit.vectorizer,
                                  !.tfidf_matrix = fit.matrix,
                                  !.is_indexed = TRUE],
          raised |-> FALSE, count |-> Len(filled.document_ids)]

(* index_documents(): [self |-> the fields afterwards, raised, count |-> the value returned] *)
index_documents(self, documents) ==
    IF documents = <<>>
    THEN [self |-> Cleared, raised |-> FALSE, count |-> 0]
    ELSE Fill(Filled(self, documents),
              FitTransform([i \in DOMAIN documents |-> documents[i].content]))

(* TopIndices with the slice taken before the reversal: argsort(...)[:top_k][::-1] *)
TopIndicesSliceFirst(similarities, top_k, tie) ==
    Reverse(Take(Argsort(similarities, tie), top_k))

(* TopIndices without the reversal: argsort(...)[:top_k] *)
TopIndicesAscending(similarities, top_k, tie) == Take(Argsort(similarities, tie), top_k)

(* np.argsort(similarities)[::-1][:top_k] *)
TopIndices(similarities, top_k, tie) == Take(Reverse(Argsort(similarities, tie)), top_k)

RetrievalResult(self, similarities, idx) ==
    [document_id     |-> self.document_ids[idx],
     title           |-> self.document_titles[idx],
     score           |-> similarities[idx],
     content_preview |-> self.document_previews[idx]]

(* Kept without the test of line 110 *)
KeptAll(similarities, top_indices, min_score) == top_indices

Kept(similarities, top_indices, min_score) ==
    SelectSeq(top_indices, LAMBDA idx : similarities[idx] >= min_score)

ResultsOf(self, similarities, kept) ==
    [i \in DOMAIN kept |-> RetrievalResult(self, similarities, kept[i])]

(* the loop of find_relevant over top_indices *)
Results(self, similarities, top_indices, min_score) ==
    ResultsOf(self, similarities, Kept(similarities, top_indices, min_score))

(* lines 101-118 *)
Ranked(self, similarities, top_k, min_score, tie) ==
    Results(self, similarities, TopIndices(similarities, top_k, tie), min_score)

(* Query that drops the index once it has answered *)
QueryForgets(built, question, top_k, min_score, tie) ==
    IF built.raised
    THEN [self |-> built.self, raised |-> TRUE, results |-> <<>>]
    ELSE IF ~built.self.is_indexed \/ ~built.self.tfidf_matrix.present
    THEN [self |-> built.self, raised |-> FALSE, results |-> <<>>]
    ELSE IF ~built.self.vectorizer.fitted
    THEN [self |-> built.self, raised |-> TRUE, results |-> <<>>]
    ELSE [self |-> Cleared, raised |-> FALSE,
          results |-> Ranked(built.self,
                             CosineSimilarity(Transform(built.self.vectorizer, question),
                                              built.self.tfidf_matrix),
                             top_k, min_score, tie)]

(* lines 98-118, after the implicit build *)
Query(built, question, top_k, min_score, tie) ==
    IF built.raised
    THEN [self |-> built.self, raised |-> TRUE, results |-> <<>>]
    ELSE IF ~built.self.is_indexed \/ ~built.self.tfidf_matrix.present
    THEN [self |-> built.self, raised |-> FALSE, results |-> <<>>]
    ELSE IF ~built.self.vectorizer.fitted
    THEN [self |-> built.self, raised |-> TRUE, results |-> <<>>]
    ELSE [self |-> built.self, raised |-> FALSE,
          results |-> Ranked(built.self,
                             CosineSimilarity(Transform(built.self.vectorizer, question),
                                              built.self.tfidf_matrix),
                             top_k, min_score, tie)]

(* find_relevant that rebuilds on every call, whatever is_indexed says *)
find_relevantRebuilds(self, documents, question, top_k, min_score, tie) ==
    Query(index_documents(self, documents), question, top_k, min_score, tie)

(* find_relevant without lines 95-96: no implicit build *)
find_relevantNoBuild(self, documents, question, top_k, min_score, tie) ==
    Query([self |-> self, raised |-> FALSE, count |-> -1],
          question, top_k, min_score, tie)

(* find_relevant(question, top_k, min_score):                              *)
(* [self |-> the fields afterwards, raised, results |-> the list returned] *)
find_relevant(self, documents, question, top_k, min_score, tie) ==
    Query(IF ~self.is_indexed \/ ~self.vectorizer.present
          THEN index_documents(self, documents)
          ELSE [self |-> self, raised |-> FALSE, count |-> -1],
          question, top_k, min_score, tie)

(* Document.objects.filter(id__in=doc_ids), as the doc_map of find_relevant_documents *)
InStore(documents, id) == \E i \in DOMAIN documents : documents[i].id = id

DocOf(documents, id) == documents[CHOOSE i \in DOMAIN documents : documents[i].id = id]

(* Pairs with the pairs in the reverse of the rank order *)
PairsReversed(documents, kept) ==
    [i \in DOMAIN kept |->
        [doc |-> DocOf(documents, kept[Len(kept) + 1 - i].document_id),
         score |-> kept[Len(kept) + 1 - i].score]]

Pairs(documents, kept) ==
    [i \in DOMAIN kept |->
        [doc |-> DocOf(documents, kept[i].document_id), score |-> kept[i].score]]

Resolve(found, documents) ==
    [self |-> found.self, raised |-> found.raised, results |-> found.results,
     resolved |-> Pairs(documents,
                        SelectSeq(found.results,
                                  LAMBDA r : InStore(documents, r.document_id)))]

(* find_relevant_documents(question, top_k, min_score): (Document, score) pairs *)
find_relevant_documents(self, documents, question, top_k, min_score, tie) ==
    Resolve(find_relevant(self, documents, question, top_k, min_score, tie), documents)

(* clear_index() *)
clear_index(self) == Cleared

document_count == Len(document_ids)

-----------------------------------------------------------------------------
(* The record of the last operation *)

Ended(op, question, top_k, min_score, raised, count, results, resolved) ==
    [op |-> op, question |-> question, top_k |-> top_k, min_score |-> min_score,
     before |-> Self,
     raised |-> raised, count |-> count, results |-> results, resolved |-> resolved]

StoreOp(op) == Ended(op, "", 0, 0, FALSE, -1, <<>>, <<>>)

Assign(self) ==
    /\ vectorizer' = self.vectorizer
    /\ tfidf_matrix' = self.tfidf_matrix
    /\ document_ids' = self.document_ids
    /\ document_titles' = self.document_titles
    /\ document_previews' = self.document_previews
    /\ is_indexed' = self.is_indexed

index_vars == <<vectorizer, tfidf_matrix, document_ids, document_titles,
                document_previews, is_indexed>>

(* the threads of the process, and a thread that is running nothing *)
MaxThreads == 2

Threads == 1..MaxThreads

Idle == [op |-> "none"]

thread_vars == <<_retriever_instance, instances, pc, frame>>

(* the Question table and the language-model service *)
qa_vars == <<questions, _initialized>>

(* the outcome of a handler of views.py, admin.py or qa_chain.py *)
(* llm: whether the handler invoked the language model, and how that ended *)
Response(view, status, request, count, answer, documents, llm) ==
    [view |-> view, status |-> status, request |-> request, count |-> count,
     answer |-> answer, documents |-> documents, llm |-> llm]

(* request.data: a field is <<>> when absent and <<value>> when given *)
NoRequest == [question |-> <<>>, top_k |-> <<>>, min_score |-> <<>>]

NoResponse == Response("none", 0, NoRequest, -1, "", <<>>, "not invoked")

(* a call made outside a request handler, on the one thread of the process *)
Direct ==
    /\ response' = NoResponse
    /\ UNCHANGED <<thread_vars, qa_vars>>

-----------------------------------------------------------------------------
(* The state after DocumentRetriever() on an empty table *)

Init ==
    /\ store = <<>>
    /\ next_id = 1
    /\ vectorizer = NoneVectorizer
    /\ tfidf_matrix = NoneMatrix
    /\ document_ids = <<>>
    /\ document_titles = <<>>
    /\ document_previews = <<>>
    /\ is_indexed = FALSE
    /\ tie_order \in TieOrders
    /\ changes = 0
    /\ call = [StoreOp("init") EXCEPT !.before = Cleared]
    /\ response = NoResponse
    /\ _retriever_instance = 1
    /\ instances = 1
    /\ pc = [t \in Threads |-> "idle"]
    /\ frame = [t \in Threads |-> Idle]
    /\ questions = <<>>
    /\ _initialized = FALSE

(* Document.objects.create(title=..., content=...): date and created_at are now, *)
(* and Meta.ordering = ['-date', '-created_at'] lists the newest first           *)
AddDocument(title, content) ==
    /\ changes < MaxChanges
    /\ Len(store) < MaxDocs
    /\ next_id <= MaxId
    /\ store' = <<[id |-> next_id, title |-> title, content |-> content]>> \o store
    /\ next_id' = next_id + 1
    /\ changes' = changes + 1
    /\ call' = StoreOp("add")
    /\ UNCHANGED <<index_vars, tie_order>>
    /\ Direct

(* document.save() of an existing row *)
UpdateDocument(i, title, content) ==
    /\ changes < MaxChanges
    /\ i \in DOMAIN store
    /\ <<title, content>> # <<store[i].title, store[i].content>>
    /\ store' = [store EXCEPT ![i].title = title, ![i].content = content]
    /\ changes' = changes + 1
    /\ call' = StoreOp("update")
    /\ UNCHANGED <<next_id, index_vars, tie_order>>
    /\ Direct

(* document.delete() *)
DeleteDocument(i) ==
    /\ changes < MaxChanges
    /\ i \in DOMAIN store
    /\ store' = [j \in 1..(Len(store) - 1) |-> IF j < i THEN store[j] ELSE store[j + 1]]
    /\ changes' = changes + 1
    /\ call' = StoreOp("delete")
    /\ UNCHANGED <<next_id, index_vars, tie_order>>
    /\ Direct

(* index_documents() ends with outcome out *)
IndexDocumentsEnds(out) ==
    /\ Assign(out.self)
    /\ call' = Ended("index_documents", "", 0, 0, out.raised, out.count, <<>>, <<>>)
    /\ UNCHANGED <<store, next_id, tie_order, changes>>
    /\ Direct

IndexDocuments == IndexDocumentsEnds(index_documents(Self, store))

(* find_relevant(question, top_k, min_score) ends with outcome out *)
FindRelevantEnds(out, question, top_k, min_score) ==
    /\ Assign(out.self)
    /\ call' = Ended("find_relevant", question, top_k, min_score,
                     out.raised, -1, out.results, <<>>)
    /\ UNCHANGED <<store, next_id, tie_order, changes>>
    /\ Direct

FindRelevant(question, top_k, min_score) ==
    FindRelevantEnds(find_relevant(Self, store, question, top_k, min_score, tie_order),
                     question, top_k, min_score)

(* find_relevant_documents(question, top_k, min_score) ends with outcome out *)
FindRelevantDocumentsEnds(out, question, top_k, min_score) ==
    /\ Assign(out.self)
    /\ call' = Ended("find_relevant_documents", question, top_k, min_score,
                     out.raised, -1, out.results, out.resolved)
    /\ UNCHANGED <<store, next_id, tie_order, changes>>
    /\ Direct

FindRelevantDocuments(question, top_k, min_score) ==
    FindRelevantDocumentsEnds(
        find_relevant_documents(Self, store, question, top_k, min_score, tie_order),
        question, top_k, min_score)

ClearIndex ==
    /\ Assign(clear_index(Self))
    /\ call' = Ended("clear_index", "", 0, 0, FALSE, -1, <<>>, <<>>)
    /\ UNCHANGED <<store, next_id, tie_order, changes>>
    /\ Direct

Next ==
    \/ \E d \in DocInputs : AddDocument(d.title, d.content)
    \/ \E i \in 1..MaxDocs, d \in DocInputs : UpdateDocument(i, d.title, d.content)
    \/ \E i \in 1..MaxDocs : DeleteDocument(i)
    \/ IndexDocuments
    \/ \E q \in Questions, k \in TopKs, m \in MinScores : FindRelevant(q, k, m)
    \/ \E q \in Questions, k \in TopKs, m \in MinScores : FindRelevantDocuments(q, k, m)
    \/ ClearIndex

Spec == Init /\ [][Next]_vars

-----------------------------------------------------------------------------
(* Vocabulary of the properties *)

StoreIds(documents) == [i \in DOMAIN documents |-> documents[i].id]

StoreTitles(documents) == [i \in DOMAIN documents |-> documents[i].title]

StorePreviews(documents) == [i \in DOMAIN documents |-> Preview(documents[i].content)]

(* a built index: the flag set, a fitted vectorizer and a matrix *)
Built == is_indexed /\ vectorizer.fitted /\ tfidf_matrix.present

(* what find_relevant(question, top_k, min_score) would return now *)
Answer(question, top_k, min_score) ==
    find_relevant(Self, store, question, top_k, min_score, tie_order)

IsPrefix(s, t) == Len(s) <= Len(t) /\ s = SubSeq(t, 1, Len(s))

-----------------------------------------------------------------------------
(* C1: on an empty Document table index_documents() returns 0 and leaves   *)
(* is_indexed false, and find_relevant then returns the empty list, without *)
(* raising, for every question, top_k and min_score.                       *)
C1_EmptyStore ==
    /\ (call.op = "index_documents" /\ store = <<>>) =>
          /\ ~call.raised
          /\ call.count = 0
          /\ ~is_indexed
          /\ \A q \in Questions, k \in TopKs, m \in MinScores :
                Answer(q, k, m).raised = FALSE /\ Answer(q, k, m).results = <<>>
    /\ (call.op \in {"find_relevant", "find_relevant_documents"}
          /\ store = <<>> /\ ~call.before.is_indexed) =>
          ~call.raised /\ call.results = <<>> /\ ~is_indexed

(* index_documents() has run on a table emptied after a successful build *)
C1_Witness ==
    /\ call.op = "index_documents"
    /\ store = <<>>
    /\ call.before.is_indexed
    /\ call.count = 0

(* C2: on a non-empty table index_documents() returns the number of rows,  *)
(* and afterwards is_indexed is true and document_count is that number.    *)
C2_BuildReturnsCount ==
    (call.op = "index_documents" /\ store # <<>>) =>
        /\ ~call.raised
        /\ call.count = Len(store)
        /\ is_indexed
        /\ document_count = Len(store)

(* C3: is_indexed holds exactly when the vectorizer and the matrix are     *)
(* present and the three lists have one length, the number of rows of the  *)
(* last build; when is_indexed is false the lists are empty.               *)
C3_IndexedIff ==
    /\ is_indexed <=>
          /\ vectorizer.present /\ vectorizer.fitted
          /\ tfidf_matrix.present
          /\ Len(document_ids) = Len(tfidf_matrix.rows)
          /\ Len(document_titles) = Len(tfidf_matrix.rows)
          /\ Len(document_previews) = Len(tfidf_matrix.rows)
          /\ Len(tfidf_matrix.rows) > 0
    /\ ~is_indexed =>
          document_ids = <<>> /\ document_titles = <<>> /\ document_previews = <<>>

(* the index holds exactly the generation built from the table as it is *)
EntirelyNew ==
    /\ Built
    /\ Len(tfidf_matrix.rows) = Len(store)
    /\ document_ids = StoreIds(store)
    /\ document_titles = StoreTitles(store)
    /\ document_previews = StorePreviews(store)

(* C4: index_documents() is idempotent and never updates partly: a second  *)
(* call on the same table gives the same fields and the same outcome, and  *)
(* every call leaves the index entirely as it was, entirely new, or        *)
(* entirely cleared.                                                       *)
C4_BuildAtomic ==
    call.op = "index_documents" =>
        /\ Self = call.before \/ Self = Cleared \/ EntirelyNew
        /\ index_documents(Self, store).self = Self
        /\ index_documents(Self, store).raised = call.raised
        /\ index_documents(Self, store).count = call.count

(* C5: find_relevant on an index that is not built first runs a full       *)
(* index_documents() on the table as it is; if the table is not empty the  *)
(* call ends with is_indexed true and answers from that build.             *)
C5_LazyBuild ==
    (call.op = "find_relevant"
        /\ (~call.before.is_indexed \/ ~call.before.vectorizer.present)) =>
        /\ document_ids = StoreIds(store)
        /\ store # <<>> =>
              /\ ~call.raised
              /\ is_indexed
              /\ EntirelyNew
              /\ call.results =
                    Answer(call.question, call.top_k, call.min_score).results

(* a result names a row of the table, with that row's title and preview *)
FromStore(r) ==
    \E j \in DOMAIN store :
        /\ r.document_id = store[j].id
        /\ r.title = store[j].title
        /\ r.content_preview = Preview(store[j].content)

PrefixLaw(r1, r2, k1) ==
    /\ Len(r1) <= k1
    /\ IsPrefix(r1, r2)
    /\ \A i \in DOMAIN r2 : \A j \in DOMAIN r1 :
          i > Len(r1) => r2[i].score <= r1[j].score

(* C7: on a built index, for top_k k1 <= k2, find_relevant(q, k1, m) has   *)
(* at most k1 results and is a prefix of find_relevant(q, k2, m), whose    *)
(* further results score no more than the last of the first.               *)
C7_TopK ==
    /\ (call.op = "find_relevant" /\ ~call.raised) => Len(call.results) <= call.top_k
    /\ Built =>
          \A q \in Questions, m \in MinScores, k1 \in TopKs, k2 \in TopKs :
              k1 <= k2 =>
                  PrefixLaw(Answer(q, k1, m).results, Answer(q, k2, m).results, k1)

(* a call with top_k = 1 that returned one result where top_k = 2 returns two *)
C7_Witness ==
    /\ call.op = "find_relevant"
    /\ ~call.raised
    /\ call.top_k = 1
    /\ Len(call.results) = 1
    /\ Len(Answer(call.question, 2, call.min_score).results) = 2

(* s is t with some elements left out (t has no element twice) *)
IsSubseq(s, t) == s = SelectSeq(t, LAMBDA r : \E i \in DOMAIN s : s[i] = r)

(* r2 is a subsequence of r1 and all of r2 scores at least m2 *)
SubseqLaw(r1, r2, m2) ==
    /\ IsSubseq(r2, r1)
    /\ \A i \in DOMAIN r2 : r2[i].score >= m2

(* C8: on a built index, for thresholds m1 < m2, find_relevant(q, k, m2)   *)
(* is a subsequence of find_relevant(q, k, m1), and every result returned  *)
(* for threshold m scores at least m.                                      *)
C8_Threshold ==
    /\ (call.op = "find_relevant" /\ ~call.raised) =>
          \A i \in DOMAIN call.results : call.results[i].score >= call.min_score
    /\ Built =>
          \A q \in Questions, k \in TopKs, m1 \in MinScores, m2 \in MinScores :
              m1 < m2 =>
                  SubseqLaw(Answer(q, k, m1).results, Answer(q, k, m2).results, m2)

(* a call whose threshold kept one of the two results that threshold 0 returns *)
C8_Witness ==
    /\ call.op = "find_relevant"
    /\ ~call.raised
    /\ call.min_score > 0
    /\ Len(call.results) = 1
    /\ Len(Answer(call.question, call.top_k, 0).results) = 2

(* the place of a document in the parallel lists *)
Ordinal(id) == CHOOSE i \in DOMAIN document_ids : document_ids[i] = id

(* C9: the results are in descending order of score, and results of equal  *)
(* score are in ascending order of their place in the index.               *)
C9_TiesAscending ==
    (call.op = "find_relevant" /\ ~call.raised) =>
        \A i \in DOMAIN call.results : \A j \in DOMAIN call.results :
            i < j =>
                \/ call.results[i].score > call.results[j].score
                \/ /\ call.results[i].score = call.results[j].score
                   /\ Ordinal(call.results[i].document_id)
                        < Ordinal(call.results[j].document_id)

(* ranking holds each of ids once, in non-increasing order of score *)
FullRanking(ranking, ids) ==
    /\ Len(ranking) = Len(ids)
    /\ \A i \in DOMAIN ids : \E p \in DOMAIN ranking : ranking[p].document_id = ids[i]
    /\ \A i \in DOMAIN ranking : \A j \in DOMAIN ranking :
          i < j => ranking[i].score >= ranking[j].score

(* C9, amended: the ranking holds every indexed document once, in          *)
(* non-increasing order of score, and the results are in that order; the   *)
(* order of documents of equal score is left to the sort.                  *)
C9_Descending ==
    /\ (call.op = "find_relevant" /\ ~call.raised) =>
          \A i \in DOMAIN call.results : \A j \in DOMAIN call.results :
              i < j => call.results[i].score >= call.results[j].score
    /\ Built =>
          \A q \in Questions :
              FullRanking(Answer(q, Len(document_ids), 0).results, document_ids)

(* two results of equal score, the later document of the index first *)
C9_Witness ==
    /\ call.op = "find_relevant"
    /\ ~call.raised
    /\ Len(call.results) = 2
    /\ call.results[1].score = call.results[2].score
    /\ Ordinal(call.results[1].document_id) > Ordinal(call.results[2].document_id)

(* C10: a find_relevant(q, k, m) that follows a find_relevant(q, k, m) on  *)
(* the same index, nothing in between, returns the same results: ids,      *)
(* order, scores, titles and previews.                                     *)
C10_Determinism ==
    [][(/\ call.op = "find_relevant" /\ ~call.raised
        /\ call'.op = "find_relevant" /\ ~call'.raised
        /\ call'.question = call.question
        /\ call'.top_k = call.top_k
        /\ call'.min_score = call.min_score)
       => call'.results = call.results]_vars

(* a call answered from an index built before it, the table changed since *)
C10_Witness ==
    /\ call.op = "find_relevant"
    /\ ~call.raised
    /\ call.before = Self
    /\ Built
    /\ ~EntirelyNew
    /\ Len(call.results) >= 1

-----------------------------------------------------------------------------
(* the positions of results whose document is still a row of the table *)
Resolvable(results) ==
    {i \in DOMAIN results : \E j \in DOMAIN store : store[j].id = results[i].document_id}

(* pairs are, in rank order, the rows of the table named by results, each  *)
(* whole row with the score of its result; results of no row are left out  *)
ResolutionLaw(results, pairs, kept) ==
    /\ Len(pairs) = Cardinality(kept)
    /\ \A n \in DOMAIN pairs :
          \E i \in kept :
              /\ Cardinality({j \in kept : j <= i}) = n
              /\ pairs[n].score = results[i].score
              /\ pairs[n].doc.id = results[i].document_id
              /\ \E j \in DOMAIN store : store[j] = pairs[n].doc

(* C11: find_relevant_documents(q, k, m) returns, in rank order, the rows  *)
(* of the table named by the results of find_relevant(q, k, m), each row    *)
(* paired with its result's score; a result whose row was deleted after    *)
(* indexing is left out, and the call on a built index does not raise.     *)
C11_Resolution ==
    call.op = "find_relevant_documents" =>
        /\ (call.before.is_indexed /\ call.before.vectorizer.fitted) => ~call.raised
        /\ ~call.raised =>
              /\ call.results =
                    Answer(call.question, call.top_k, call.min_score).results
              /\ ResolutionLaw(call.results, call.resolved, Resolvable(call.results))

(* a result of a row deleted after indexing is left out of the pairs *)
C11_Witness ==
    /\ call.op = "find_relevant_documents"
    /\ ~call.raised
    /\ call.before.is_indexed
    /\ Len(call.results) > Len(call.resolved)

-----------------------------------------------------------------------------
(* get_retriever() called from the request handlers of the process, from   *)
(* the import of retriever.py on                                           *)

MaxHandlers == 3

Handlers == 1..MaxHandlers

NotCalled == [op |-> "none", returned |-> 0]

InitSingleton ==
    /\ store = <<>>
    /\ next_id = 1
    /\ vectorizer = NoneVectorizer
    /\ tfidf_matrix = NoneMatrix
    /\ document_ids = <<>>
    /\ document_titles = <<>>
    /\ document_previews = <<>>
    /\ is_indexed = FALSE
    /\ tie_order = "stable"
    /\ changes = 0
    /\ call = [StoreOp("init") EXCEPT !.before = Cleared]
    /\ response = NoResponse
    /\ _retriever_instance = 0
    /\ instances = 0
    /\ pc = [t \in Handlers |-> "idle"]
    /\ frame = [t \in Handlers |-> NotCalled]
    /\ questions = <<>>
    /\ _initialized = FALSE

sequential_vars == <<store, next_id, index_vars, tie_order, changes, call, response,
                     qa_vars>>

(* line 186: if _retriever_instance is None *)
GetRetrieverTest(t) ==
    /\ pc[t] = "idle"
    /\ pc' = [pc EXCEPT ![t] = IF _retriever_instance = 0 THEN "187" ELSE "188"]
    /\ frame' = [frame EXCEPT ![t].op = "get_retriever"]
    /\ UNCHANGED <<_retriever_instance, instances, sequential_vars>>

(* line 187: _retriever_instance = DocumentRetriever() *)
GetRetrieverCreate(t) ==
    /\ pc[t] = "187"
    /\ instances' = instances + 1
    /\ _retriever_instance' = instances + 1
    /\ pc' = [pc EXCEPT ![t] = "188"]
    /\ UNCHANGED <<frame, sequential_vars>>

(* line 188: return _retriever_instance *)
GetRetrieverReturn(t) ==
    /\ pc[t] = "188"
    /\ frame' = [frame EXCEPT ![t].returned = _retriever_instance]
    /\ pc' = [pc EXCEPT ![t] = "idle"]
    /\ UNCHANGED <<_retriever_instance, instances, sequential_vars>>

NextSingleton ==
    \/ \E t \in Handlers : GetRetrieverTest(t)
    \/ \E t \in Handlers : GetRetrieverCreate(t)
    \/ \E t \in Handlers : GetRetrieverReturn(t)

SpecSingleton == InitSingleton /\ [][NextSingleton]_vars

(* the instances that calls of get_retriever() have returned *)
Returned == {frame[t].returned : t \in Handlers} \ {0}

(* C12: every call of get_retriever() returns the same instance, and only  *)
(* one DocumentRetriever is ever constructed, also when threads race on    *)
(* the first access.                                                       *)
C12_Singleton ==
    /\ instances <= 1
    /\ Cardinality(Returned) <= 1

-----------------------------------------------------------------------------
(* The handlers of views.py, admin.py, storage/database.py and qa_chain.py, *)
(* each run to its end on the singleton retriever                          *)

(* refresh_index(): get_retriever().index_documents() *)
refresh_index(self, documents) == index_documents(self, documents)

(* an exception that leaves a view is answered with status 500 *)
StatusOf(raised, ok) == IF raised THEN 500 ELSE ok

(* refresh_index_view: POST /api/refresh-index/ ends with outcome out *)
RefreshIndexViewEnds(out) ==
    /\ Assign(out.self)
    /\ call' = Ended("refresh_index", "", 0, 0, out.raised, out.count, <<>>, <<>>)
    /\ response' = Response("refresh_index_view", StatusOf(out.raised, 200), NoRequest,
                            out.count, "", <<>>, "not invoked")
    /\ UNCHANGED <<store, next_id, tie_order, changes, thread_vars, qa_vars>>

RefreshIndexView == RefreshIndexViewEnds(refresh_index(Self, store))

(* C13: refresh_index() rebuilds the index whatever its state and returns   *)
(* the number of rows of the table; document_count is then that number and *)
(* the refresh-index endpoint reports it as documents_indexed.             *)
C13_RefreshCounts ==
    response.view = "refresh_index_view" =>
        /\ ~call.raised
        /\ call.count = Len(store)
        /\ document_count = Len(store)
        /\ document_ids = StoreIds(store)
        /\ is_indexed = (store # <<>>)
        /\ response.status = 200
        /\ response.count = Len(store)

-----------------------------------------------------------------------------
(* Rows written through the admin and through the storage backend *)

(* form.save() of the add form: a new row, listed first *)
Created(documents, id, title, content) ==
    <<[id |-> id, title |-> title, content |-> content]>> \o documents

(* obj.delete() of row i *)
Removed(documents, i) ==
    [j \in 1..(Len(documents) - 1) |-> IF j < i THEN documents[j] ELSE documents[j + 1]]

(* Document.objects.filter(id=document_id).update(content=content) *)
ContentSaved(documents, document_id, content) ==
    [j \in DOMAIN documents |->
        IF documents[j].id = document_id
        THEN [documents[j] EXCEPT !.content = content]
        ELSE documents[j]]

(* the through table of Question.related_documents cascades: the links of *)
(* a question are to rows of the table                                     *)
Linked(rows, documents) ==
    [q \in DOMAIN rows |->
        [rows[q] EXCEPT !.related_documents =
            {id \in @ : \E j \in DOMAIN documents : documents[j].id = id}]]

(* DocumentAdmin.save_model / delete_model end: the row is written, then    *)
(* refresh_index() ends with outcome out; the admin view runs in a          *)
(* transaction, so the write is rolled back when refresh_index() raises;    *)
(* a deleted row takes its related_documents links with it                  *)
AdminEnds(op, written, id, out) ==
    /\ store' = IF out.raised THEN store ELSE written
    /\ questions' = IF out.raised THEN questions ELSE Linked(questions, written)
    /\ next_id' = IF out.raised THEN next_id ELSE id
    /\ Assign(out.self)
    /\ changes' = changes + 1
    /\ call' = Ended(op, "", 0, 0, out.raised, out.count, <<>>, <<>>)
    /\ response' = Response(op, StatusOf(out.raised, 302), NoRequest,
                            out.count, "", <<>>, "not invoked")
    /\ UNCHANGED <<tie_order, thread_vars, _initialized>>

(* save_model(request, obj, form, change=False) *)
SaveModelAdd(title, content) ==
    /\ changes < MaxChanges
    /\ Len(store) < MaxDocs
    /\ next_id <= MaxId
    /\ AdminEnds("save_model", Created(store, next_id, title, content), next_id + 1,
                 refresh_index(Self, Created(store, next_id, title, content)))

(* save_model(request, obj, form, change=True) *)
SaveModelChange(i, title, content) ==
    /\ changes < MaxChanges
    /\ i \in DOMAIN store
    /\ AdminEnds("save_model",
                 [store EXCEPT ![i].title = title, ![i].content = content], next_id,
                 refresh_index(Self, [store EXCEPT ![i].title = title,
                                                   ![i].content = content]))

(* delete_model(request, obj) *)
DeleteModel(i) ==
    /\ changes < MaxChanges
    /\ i \in DOMAIN store
    /\ AdminEnds("delete_model", Removed(store, i), next_id,
                 refresh_index(Self, Removed(store, i)))

(* DatabaseStorageBackend.save_content(document_id, content), which is also *)
(* update_content; delete_content is the same update with content ''       *)
SaveContent(op, document_id, content) ==
    /\ changes < MaxChanges
    /\ store' = ContentSaved(store, document_id, content)
    /\ changes' = changes + 1
    /\ call' = StoreOp(op)
    /\ response' = NoResponse
    /\ UNCHANGED <<next_id, index_vars, tie_order, thread_vars, qa_vars>>

(* the index holds the rows of the table as they are now *)
Current ==
    /\ document_ids = StoreIds(store)
    /\ document_titles = StoreTitles(store)
    /\ document_previews = StorePreviews(store)
    /\ store # <<>> => EntirelyNew

(* C14: after a row is written or deleted through the admin or its content  *)
(* is written or cleared through the storage backend, the index is rebuilt *)
(* or dropped before the next query: a find_relevant that follows is        *)
(* answered from the rows as they are now.                                 *)
C14_NotifiedBeforeQuery ==
    [][(/\ call.op \in {"save_model", "delete_model", "save_content", "delete_content"}
        /\ call'.op \in {"find_relevant", "find_relevant_documents"}
        /\ ~call'.raised)
       => Current']_vars

-----------------------------------------------------------------------------
(* index_documents, find_relevant and clear_index run by the request        *)
(* threads of the process on the singleton, statement by statement: the     *)
(* retriever takes no lock, so the threads' statements interleave           *)

(* the local variables of a running call *)
Frame(op, question, documents, contents, similarities, top_indices) ==
    [op |-> op, question |-> question, documents |-> documents, contents |-> contents,
     similarities |-> similarities, top_indices |-> top_indices,
     raised |-> FALSE, count |-> -1, results |-> <<>>]

(* a call that has ended: what it raised or returned *)
Returns(frm, raised, count, results) ==
    [Frame(frm.op, "", <<>>, <<>>, <<>>, <<>>)
        EXCEPT !.raised = raised, !.count = count, !.results = results]

(* rows every build can vectorize *)
Sound == {d \in DocInputs : Analyze(d.content) # <<>>}

(* the question the threads ask: one that matches the sound rows *)
Asked == "Cloud ai"

unshared_vars == <<store, next_id, tie_order, changes, call, response,
                   _retriever_instance, instances, qa_vars>>

(* lines 40-45: the queryset is read when 'if not documents' tests it *)
BuildStarts(t, frm) ==
    /\ frame' = [frame EXCEPT ![t] = [frm EXCEPT !.documents = store]]
    /\ pc' = [pc EXCEPT ![t] = IF store = <<>> THEN "46" ELSE "54"]
    /\ UNCHANGED <<index_vars, unshared_vars>>

(* a thread calls index_documents() *)
IndexDocumentsCalled(t) ==
    /\ pc[t] = "idle"
    /\ BuildStarts(t, Frame("index_documents", "", <<>>, <<>>, <<>>, <<>>))

(* a thread calls find_relevant(question); line 95 *)
FindRelevantCalled(t, question) ==
    /\ pc[t] = "idle"
    /\ IF is_indexed /\ vectorizer.present
       THEN /\ frame' = [frame EXCEPT ![t] =
                            Frame("find_relevant", question, <<>>, <<>>, <<>>, <<>>)]
            /\ pc' = [pc EXCEPT ![t] = "98"]
            /\ UNCHANGED <<index_vars, unshared_vars>>
       ELSE BuildStarts(t, Frame("find_relevant", question, <<>>, <<>>, <<>>, <<>>))

(* index_documents() returns count: to its caller, or into line 98 of find_relevant *)
BuildReturns(t, count) ==
    IF frame[t].op = "find_relevant"
    THEN /\ pc' = [pc EXCEPT ![t] = "98"]
         /\ UNCHANGED frame
    ELSE /\ pc' = [pc EXCEPT ![t] = "idle"]
         /\ frame' = [frame EXCEPT ![t] = Returns(frame[t], FALSE, count, <<>>)]

(* lines 46-52 *)
BuildEmpty(t) ==
    /\ pc[t] = "46"
    /\ Assign(Cleared)
    /\ BuildReturns(t, 0)
    /\ UNCHANGED unshared_vars

(* lines 54-56 *)
BuildResets(t) ==
    /\ pc[t] = "54"
    /\ document_ids' = <<>>
    /\ document_titles' = <<>>
    /\ document_previews' = <<>>
    /\ pc' = [pc EXCEPT ![t] = "60"]
    /\ UNCHANGED <<vectorizer, tfidf_matrix, is_indexed, frame, unshared_vars>>

(* lines 60-65: one turn of the loop, on the lists self holds at that moment *)
BuildAppends(t, doc) ==
    /\ document_ids' = Append(document_ids, doc.id)
    /\ document_titles' = Append(document_titles, doc.title)
    /\ document_previews' = Append(document_previews, Preview(doc.content))
    /\ frame' = [frame EXCEPT ![t].contents = Append(@, doc.content)]
    /\ pc' = [pc EXCEPT ![t] =
                 IF Len(frame[t].contents) + 1 < Len(frame[t].documents) THEN "60" ELSE "67"]
    /\ UNCHANGED <<vectorizer, tfidf_matrix, is_indexed, unshared_vars>>

BuildLoop(t) ==
    /\ pc[t] = "60"
    /\ BuildAppends(t, frame[t].documents[Len(frame[t].contents) + 1])

(* lines 67-71 *)
BuildVectorizer(t) ==
    /\ pc[t] = "67"
    /\ vectorizer' = NewVectorizer
    /\ pc' = [pc EXCEPT ![t] = "73"]
    /\ UNCHANGED <<tfidf_matrix, document_ids, document_titles, document_previews,
                   is_indexed, frame, unshared_vars>>

(* lines 73-76, fit_transform ending with fit *)
BuildFits(t, fit) ==
    IF fit.raised
    THEN /\ pc' = [pc EXCEPT ![t] = "idle"]
         /\ frame' = [frame EXCEPT ![t] = Returns(frame[t], TRUE, -1, <<>>)]
         /\ UNCHANGED <<index_vars, unshared_vars>>
    ELSE /\ vectorizer' = fit.vectorizer
         /\ tfidf_matrix' = fit.matrix
         /\ is_indexed' = TRUE
         /\ BuildReturns(t, Len(document_ids))
         /\ UNCHANGED <<document_ids, document_titles, document_previews, unshared_vars>>

BuildFit(t) ==
    /\ pc[t] = "73"
    /\ BuildFits(t, FitTransform(frame[t].contents))

(* lines 98-99 *)
FindChecks(t) ==
    /\ pc[t] = "98"
    /\ IF ~is_indexed \/ ~tfidf_matrix.present
       THEN /\ pc' = [pc EXCEPT ![t] = "idle"]
            /\ frame' = [frame EXCEPT ![t] = Returns(frame[t], FALSE, -1, <<>>)]
       ELSE /\ pc' = [pc EXCEPT ![t] = "101"]
            /\ UNCHANGED frame
    /\ UNCHANGED <<index_vars, unshared_vars>>

(* lines 101-105 with the similarities computed: top_k is the default *)
FindRanks(t, similarities) ==
    /\ frame' = [frame EXCEPT ![t].similarities = similarities,
                              ![t].top_indices =
                                  TopIndices(similarities, DefaultTopK, tie_order)]
    /\ pc' = [pc EXCEPT ![t] = "107"]

(* lines 101-105: transform raises on a vectorizer that is None or not yet *)
(* fitted, cosine_similarity on a matrix that is None                      *)
FindScores(t) ==
    /\ pc[t] = "101"
    /\ IF ~vectorizer.fitted \/ ~tfidf_matrix.present
       THEN /\ pc' = [pc EXCEPT ![t] = "idle"]
            /\ frame' = [frame EXCEPT ![t] = Returns(frame[t], TRUE, -1, <<>>)]
       ELSE FindRanks(t, CosineSimilarity(Transform(vectorizer, frame[t].question),
                                          tfidf_matrix))
    /\ UNCHANGED <<index_vars, unshared_vars>>

(* the indices the loop of lines 107-116 reads the three lists at: min_score is 0.0 *)
InRange(top_indices) ==
    \A n \in DOMAIN top_indices :
        /\ top_indices[n] <= Len(document_ids)
        /\ top_indices[n] <= Len(document_titles)
        /\ top_indices[n] <= Len(document_previews)

(* lines 107-118: self._document_ids[idx] raises IndexError out of range *)
FindCollects(t) ==
    /\ pc[t] = "107"
    /\ pc' = [pc EXCEPT ![t] = "idle"]
    /\ frame' = [frame EXCEPT ![t] =
                    IF InRange(frame[t].top_indices)
                    THEN Returns(frame[t], FALSE, -1,
                                 Results(Self, frame[t].similarities,
                                         frame[t].top_indices, 0))
                    ELSE Returns(frame[t], TRUE, -1, <<>>)]
    /\ UNCHANGED <<index_vars, unshared_vars>>

(* clear_index(), lines 166-171 *)
ClearIndexCalled(t) ==
    /\ pc[t] = "idle"
    /\ Assign(clear_index(Self))
    /\ frame' = [frame EXCEPT ![t] =
                    Returns(Frame("clear_index", "", <<>>, <<>>, <<>>, <<>>),
                            FALSE, -1, <<>>)]
    /\ UNCHANGED <<pc, unshared_vars>>

NextThreads ==
    \/ \E d \in Sound : AddDocument(d.title, d.content)
    \/ \E i \in 1..MaxDocs : DeleteDocument(i)
    \/ \E t \in Threads : IndexDocumentsCalled(t)
    \/ \E t \in Threads : FindRelevantCalled(t, Asked)
    \/ \E t \in Threads : ClearIndexCalled(t)
    \/ \E t \in Threads : BuildEmpty(t)
    \/ \E t \in Threads : BuildResets(t)
    \/ \E t \in Threads : BuildLoop(t)
    \/ \E t \in Threads : BuildVectorizer(t)
    \/ \E t \in Threads : BuildFit(t)
    \/ \E t \in Threads : FindChecks(t)
    \/ \E t \in Threads : FindScores(t)
    \/ \E t \in Threads : FindCollects(t)

SpecThreads == Init /\ [][NextThreads]_vars

(* thread u is rebuilding: between the reset of the lists and the fit *)
Rebuilding(u) == pc[u] \in {"60", "67", "73"}

(* C15: a find_relevant that runs while another thread rebuilds the index  *)
(* reads one generation: its statements that read the vectorizer, the      *)
(* matrix and the three lists while the other thread is inside lines 54-73 *)
(* do not raise on a half-made index or index a list out of its range.     *)
C15_NoTornRead ==
    [][\A t \in Threads :
          (/\ pc[t] \in {"101", "107"}
           /\ pc'[t] = "idle"
           /\ \E u \in Threads \ {t} : Rebuilding(u))
          => ~frame'[t].raised]_vars

(* no thread is inside a call *)
Quiet == \A t \in Threads : pc[t] = "idle"

NoDuplicates(s) == \A i, j \in DOMAIN s : s[i] = s[j] => i = j

(* C16: rebuilds run by two threads do not interleave their writes: once    *)
(* they have ended the three lists hold the rows of one build, no id twice, *)
(* and as many entries as the matrix has rows.                             *)
C16_ExclusiveBuilds ==
    (Quiet /\ is_indexed) =>
        /\ NoDuplicates(document_ids)
        /\ Len(document_ids) = Len(tfidf_matrix.rows)
        /\ Len(document_titles) = Len(document_ids)
        /\ Len(document_previews) = Len(document_ids)

-----------------------------------------------------------------------------
(* RetrieveDocumentsView: POST /api/retrieve/ *)

MinTopK == 1

MaxTopK == 10

RECURSIVE Strip(_)
(* str.strip(), as CharField(trim_whitespace=True) applies it *)
Strip(s) ==
    IF s = "" THEN ""
    ELSE IF Head(s) = " " THEN Strip(Tail(s))
    ELSE IF SubSeq(s, Len(s), Len(s)) = " " THEN Strip(SubSeq(s, 1, Len(s) - 1))
    ELSE s

(* is_valid() with the range checks of top_k and min_score left out *)
is_validQuestionOnly(request) ==
    /\ request.question # <<>>
    /\ Len(Strip(request.question[1])) >= 1

(* RetrievalRequestSerializer(data=request.data).is_valid(): question is    *)
(* required and not blank, top_k within 1..10, min_score within 0.0..1.0    *)
is_valid(request) ==
    /\ request.question # <<>>
    /\ Len(Strip(request.question[1])) >= 1
    /\ request.top_k # <<>> => (request.top_k[1] >= MinTopK /\ request.top_k[1] <= MaxTopK)
    /\ request.min_score # <<>> => (request.min_score[1] >= 0 /\ request.min_score[1] <= 100)

(* serializer.validated_data: the defaults stand in for absent fields *)
validated_data(request) ==
    [question |-> Strip(request.question[1]),
     top_k |-> IF request.top_k = <<>> THEN DefaultTopK ELSE request.top_k[1],
     min_score |-> IF request.min_score = <<>> THEN 0 ELSE request.min_score[1]]

(* lines 70-71 of the views, 132-134 of answer_question *)
RefreshedIfNeeded(self, documents) ==
    IF ~self.is_indexed
    THEN refresh_index(self, documents)
    ELSE [self |-> self, raised |-> FALSE, count |-> -1]

(* line 73 after lines 70-71 *)
RetrieveFinds(refreshed, documents, data, tie) ==
    IF refreshed.raised
    THEN [self |-> refreshed.self, raised |-> TRUE, results |-> <<>>]
    ELSE find_relevant(refreshed.self, documents, data.question, data.top_k,
                       data.min_score, tie)

(* the requests sent to the view *)
RetrievalRequests ==
    {[question |-> <<"Cloud ai">>, top_k |-> <<>>, min_score |-> <<>>],
     [question |-> <<" Cloud ai ">>, top_k |-> <<2>>, min_score |-> <<50>>],
     [question |-> <<"the">>, top_k |-> <<MaxTopK>>, min_score |-> <<100>>],
     [question |-> <<>>, top_k |-> <<>>, min_score |-> <<>>],
     [question |-> <<"">>, top_k |-> <<2>>, min_score |-> <<>>],
     [question |-> <<" ">>, top_k |-> <<>>, min_score |-> <<50>>],
     [question |-> <<"Cloud ai">>, top_k |-> <<MinTopK - 1>>, min_score |-> <<>>],
     [question |-> <<"Cloud ai">>, top_k |-> <<MaxTopK + 1>>, min_score |-> <<>>],
     [question |-> <<"Cloud ai">>, top_k |-> <<>>, min_score |-> <<-1>>],
     [question |-> <<"Cloud ai">>, top_k |-> <<>>, min_score |-> <<101>>]}

(* lines 61-62: HTTP 400, nothing else touched *)
Rejected(view, request) ==
    /\ response' = Response(view, 400, request, -1, "", <<>>, "not invoked")
    /\ UNCHANGED <<store, next_id, index_vars, tie_order, changes, call, thread_vars,
                   qa_vars>>

RetrieveRejected(request) ==
    /\ ~is_valid(request)
    /\ Rejected("retrieve", request)

(* lines 64-92 end with outcome out *)
RetrieveEnds(out, request, data) ==
    /\ Assign(out.self)
    /\ call' = Ended(IF ~is_indexed /\ out.raised THEN "refresh_index" ELSE "find_relevant",
                     data.question, data.top_k, data.min_score,
                     out.raised, -1, out.results, <<>>)
    /\ response' = Response("retrieve", StatusOf(out.raised, 200), request,
                            Len(out.self.document_ids), "", out.results, "not invoked")
    /\ UNCHANGED <<store, next_id, tie_order, changes, thread_vars, qa_vars>>

Retrieve(request) ==
    /\ is_valid(request)
    /\ RetrieveEnds(RetrieveFinds(RefreshedIfNeeded(Self, store), store,
                                  validated_data(request), tie_order),
                    request, validated_data(request))

-----------------------------------------------------------------------------
(* QAChainService and AskQuestionView: POST /api/ask/ *)

AnswerTopK == 3

(* min_score=0.05, in hundredths *)
AnswerMinScore == 5

(* what loading the model and self._llm.invoke(prompt) do: the model is   *)
(* outside the program; "unavailable" is _init_fake_llm or                  *)
(* _init_huggingface_llm raising                                            *)
LlmOutcomes == {"answers", "raises", "unavailable"}

NoDocumentsAnswer == "No relevant documents found to answer this question."

LlmResponse == "Based on the provided documents, I can provide the following answer."

LlmError == "model unavailable"

(* timezone.now() *)
Now == "now"

(* AskQuestionRequestSerializer.is_valid(): question is required and not blank *)
ask_is_valid(request) ==
    /\ request.question # <<>>
    /\ Len(Strip(request.question[1])) >= 1

AskRequests ==
    {[question |-> <<"Cloud ai">>, top_k |-> <<>>, min_score |-> <<>>],
     [question |-> <<" Cloud ai ">>, top_k |-> <<>>, min_score |-> <<>>],
     [question |-> <<"the">>, top_k |-> <<>>, min_score |-> <<>>],
     [question |-> <<>>, top_k |-> <<>>, min_score |-> <<>>],
     [question |-> <<" ">>, top_k |-> <<>>, min_score |-> <<>>]}

(* _initialize(), lines 20-32: nothing to do once initialized; else the   *)
(* model is loaded, and the flag is set only when that did not raise       *)
_initialize(initialized, outcome) ==
    [raised |-> ~initialized /\ outcome = "unavailable",
     initialized |-> initialized \/ outcome # "unavailable"]

(* lines 94-116 of generate_answer: the except clause turns an error of   *)
(* the model into the text returned                                        *)
Generated(documents, outcome) ==
    IF documents = <<>>
    THEN [raised |-> FALSE, answer |-> NoDocumentsAnswer, llm |-> "not invoked"]
    ELSE IF outcome = "raises"
    THEN [raised |-> FALSE, answer |-> "Error generating answer: " \o LlmError,
          llm |-> "raised"]
    ELSE [raised |-> FALSE, answer |-> LlmResponse, llm |-> "answered"]

(* generate_answer(question, documents), lines 92-116 *)
generate_answer(initialized, documents, outcome) ==
    IF _initialize(initialized, outcome).raised
    THEN [raised |-> TRUE, answer |-> "", llm |-> "unavailable"]
    ELSE Generated(documents, outcome)

(* lines 136-140 after lines 130-134 *)
AnswerFinds(refreshed, documents, question, top_k, min_score, tie) ==
    IF refreshed.raised
    THEN [self |-> refreshed.self, raised |-> TRUE, results |-> <<>>, resolved |-> <<>>]
    ELSE find_relevant_documents(refreshed.self, documents, question, top_k, min_score, tie)

(* answer_question with the score threshold left out *)
answer_questionUnfiltered(self, documents, question, tie) ==
    AnswerFinds(RefreshedIfNeeded(self, documents), documents, question,
                AnswerTopK, 0, tie)

(* answer_question(question_obj), lines 128-140: the documents it retrieves *)
answer_question(self, documents, question, tie) ==
    AnswerFinds(RefreshedIfNeeded(self, documents), documents, question,
                AnswerTopK, AnswerMinScore, tie)

(* Question.objects.create(text=question_text): a new row, listed first *)
QuestionCreated(rows, text) ==
    <<[id |-> Len(rows) + 1, text |-> text, answer |-> <<>>, answered_at |-> <<>>,
       related_documents |-> {}]>> \o rows

(* lines 144-151 with related_documents.clear() and the add loop left out *)
QuestionAnsweredKeepsLinks(row, answer, documents) ==
    [row EXCEPT !.answer = <<answer>>, !.answered_at = <<Now>>]

(* lines 144-151 of answer_question: the answer, the time, and the links  *)
(* cleared and set to the documents retrieved                              *)
QuestionAnswered(row, answer, documents) ==
    [row EXCEPT !.answer = <<answer>>,
                !.answered_at = <<Now>>,
                !.related_documents = {documents[i].doc.id : i \in DOMAIN documents}]

(* the view with the row created deleted again when answer_question raises *)
AskSavesRolledBack(rows, text, out, generated) ==
    IF out.raised \/ generated.raised
    THEN rows
    ELSE <<QuestionAnswered(Head(QuestionCreated(rows, text)), generated.answer,
                            out.resolved)>> \o rows

(* the Question table after lines 133-143 of the view: the row is created  *)
(* before answer_question runs, and answer_question writes to it only      *)
(* after retrieval and generation have returned                            *)
AskSaves(rows, text, out, generated) ==
    IF out.raised \/ generated.raised
    THEN QuestionCreated(rows, text)
    ELSE <<QuestionAnswered(Head(QuestionCreated(rows, text)), generated.answer,
                            out.resolved)>> \o rows

(* lines 142-153 and the view's lines 137-158: the answer is stored on the *)
(* question and sent back; an exception out of answer_question is a 500    *)
AskAnswers(out, generated, request) ==
    response' =
        IF out.raised
        THEN Response("ask", 500, request, -1, "", <<>>, "not invoked")
        ELSE IF generated.raised
        THEN Response("ask", 500, request, -1, "", <<>>, generated.llm)
        ELSE Response("ask", 201, request, Len(out.resolved), generated.answer,
                      out.resolved, generated.llm)

AskEnds(out, question, outcome, request) ==
    /\ Assign(out.self)
    /\ call' = Ended(IF ~is_indexed /\ out.raised
                     THEN "refresh_index" ELSE "find_relevant_documents",
                     question, AnswerTopK, AnswerMinScore,
                     out.raised, -1, out.results, out.resolved)
    /\ AskAnswers(out, generate_answer(_initialized, out.resolved, outcome), request)
    /\ questions' = AskSaves(questions, question, out,
                             generate_answer(_initialized, out.resolved, outcome))
    /\ _initialized' = IF out.raised THEN _initialized
                       ELSE _initialize(_initialized, outcome).initialized
    /\ changes' = changes + 1
    /\ UNCHANGED <<store, next_id, tie_order, thread_vars>>

AskRejected(request) ==
    /\ ~ask_is_valid(request)
    /\ Rejected("ask", request)

(* "unavailable" is an outcome of loading the model, which a service       *)
(* already initialized does not do again                                   *)
Ask(request, outcome) ==
    /\ ask_is_valid(request)
    /\ changes < MaxChanges
    /\ outcome = "unavailable" => ~_initialized
    /\ AskEnds(answer_question(Self, store, Strip(request.question[1]), tie_order),
               Strip(request.question[1]), outcome, request)

(* the server process starts again: a new DocumentRetriever and a new      *)
(* QAChainService over the tables as they were left                        *)
ProcessStarts ==
    /\ Self # Cleared \/ _initialized
    /\ Assign(Cleared)
    /\ call' = [StoreOp("init") EXCEPT !.before = Cleared]
    /\ response' = NoResponse
    /\ _initialized' = FALSE
    /\ UNCHANGED <<store, next_id, tie_order, changes, thread_vars, questions>>

NextService ==
    \/ RefreshIndexView
    \/ \E d \in DocInputs : SaveModelAdd(d.title, d.content)
    \/ \E i \in 1..MaxDocs, d \in DocInputs : SaveModelChange(i, d.title, d.content)
    \/ \E i \in 1..MaxDocs : DeleteModel(i)
    \/ \E id \in 1..MaxId, c \in Contents : SaveContent("save_content", id, c)
    \/ \E id \in 1..MaxId : SaveContent("delete_content", id, "")
    \/ \E r \in RetrievalRequests : RetrieveRejected(r)
    \/ \E r \in RetrievalRequests : Retrieve(r)
    \/ \E r \in AskRequests : AskRejected(r)
    \/ \E r \in AskRequests, o \in LlmOutcomes : Ask(r, o)
    \/ ProcessStarts

(* a process starts over the tables as an earlier one left them: no rows, *)
(* or a row whose content the storage backend wrote and no build can      *)
(* vectorize (the admin would have refused it)                            *)
InitService ==
    /\ store \in {<<>>} \cup {Created(<<>>, 1, d.title, d.content) : d \in DocInputs \ Sound}
    /\ next_id = Len(store) + 1
    /\ vectorizer = NoneVectorizer
    /\ tfidf_matrix = NoneMatrix
    /\ document_ids = <<>>
    /\ document_titles = <<>>
    /\ document_previews = <<>>
    /\ is_indexed = FALSE
    /\ tie_order \in TieOrders
    /\ changes = 0
    /\ call = [StoreOp("init") EXCEPT !.before = Cleared]
    /\ response = NoResponse
    /\ _retriever_instance = 1
    /\ instances = 1
    /\ pc = [t \in Threads |-> "idle"]
    /\ frame = [t \in Threads |-> Idle]
    /\ questions = <<>>
    /\ _initialized = FALSE

SpecService == InitService /\ [][NextService]_vars

-----------------------------------------------------------------------------
(* C17: when the language model raises, POST /api/ask/ and answer_question *)
(* fail distinguishably, and the error is not stored or sent as the answer. *)
C17_LlmFailurePropagates ==
    (response.view = "ask" /\ response.llm = "raised") =>
        /\ response.status = 500
        /\ response.answer = ""

(* what the claim of C18 calls a well-formed retrieve request *)
WellFormed(request) ==
    /\ request.question # <<>>
    /\ request.question[1] # ""
    /\ request.top_k # <<>> => request.top_k[1] \in MinTopK..MaxTopK
    /\ request.min_score # <<>> => request.min_score[1] \in 0..100

(* C18: a retrieve request with a missing or empty question, a top_k       *)
(* outside 1..10 or a min_score outside [0, 1] is answered with HTTP 400    *)
(* and leaves the retriever alone: no refresh, no query, the index as it was. *)
C18_RejectedAtBoundary ==
    [][(response'.view = "retrieve" /\ ~WellFormed(response'.request)) =>
          /\ response'.status = 400
          /\ UNCHANGED <<index_vars, call, store>>]_vars

(* a malformed request refused while an index is built *)
C18_Witness ==
    /\ response.view = "retrieve"
    /\ response.status = 400
    /\ response.request.top_k = <<MaxTopK + 1>>
    /\ Built
    /\ call.op = "find_relevant"

(* scores do not increase along the pairs *)
RankOrder(pairs) ==
    \A i, j \in DOMAIN pairs : i < j => pairs[i].score >= pairs[j].score

-----------------------------------------------------------------------------
(* questions asked of a built index, one of them the text of a row *)
Probes == Questions \cup {"ML ai"}

(* C19: find_relevant treats a min_score outside [0, 1] as the nearest     *)
(* bound: above 1 it answers as with 1.0, below 0 as with 0.0.             *)
C19_Clamped ==
    Built =>
        \A q \in Probes, k \in TopKs :
            /\ Answer(q, k, 150).results = Answer(q, k, 100).results
            /\ Answer(q, k, -50).results = Answer(q, k, 0).results

-----------------------------------------------------------------------------
(* a table that is not empty and whose rows yield no term at all *)
NoVocabulary ==
    /\ store # <<>>
    /\ \A i \in DOMAIN store : Analyze(store[i].content) = <<>>

(* C22: an error inside vectorization or ranking, such as fitting on rows  *)
(* that yield no vocabulary, becomes the not-indexed, empty-result path:   *)
(* index_documents and find_relevant do not raise, is_indexed ends false    *)
(* and find_relevant returns the empty list.                               *)
C22_ErrorsBecomeEmpty ==
    (call.op \in {"index_documents", "find_relevant"} /\ NoVocabulary) =>
        /\ ~call.raised
        /\ ~is_indexed
        /\ call.results = <<>>

-----------------------------------------------------------------------------
(* the preview p kept for a content c: c itself up to 200 characters, else *)
(* its first 200 characters and the three of the mark '...'                *)
PreviewLaw(c, p) ==
    IF Len(c) <= PreviewLen
    THEN p = c
    ELSE /\ Len(p) = PreviewLen + 3
         /\ SubSeq(p, 1, PreviewLen) = SubSeq(c, 1, PreviewLen)
         /\ SubSeq(p, PreviewLen + 1, PreviewLen + 3) = "..."

(* C23 as amended: for every row a build indexes, the preview stored is the *)
(* content when that has at most 200 characters, and otherwise the first    *)
(* 200 characters of the content followed by '...', 203 characters in all. *)
C23_Preview ==
    call.op = "index_documents" =>
        /\ Len(document_previews) = Len(store)
        /\ \A i \in DOMAIN store : PreviewLaw(store[i].content, document_previews[i])

(* C23 as stated: the preview of a content of more than 200 characters has *)
(* at most 200 characters.                                                 *)
C23_AtMostPreviewLen ==
    call.op = "index_documents" =>
        \A i \in DOMAIN document_previews :
            /\ i \in DOMAIN store
            /\ IF Len(store[i].content) <= PreviewLen
               THEN document_previews[i] = store[i].content
               ELSE Len(document_previews[i]) <= PreviewLen

(* a build over a row whose content is longer than the preview *)
C23_Witness ==
    /\ call.op = "index_documents"
    /\ ~call.raised
    /\ \E i \in DOMAIN store :
          /\ Len(store[i].content) > PreviewLen
          /\ Len(document_previews[i]) > PreviewLen

-----------------------------------------------------------------------------
(* Lines 105-116 of find_relevant on its own: a thread at line 105 with a  *)
(* vector of similarities, then the top_k slice and the min_score filter    *)

MaxRows == 3

(* scores and thresholds in hundredths *)
RankScores == {0, 50, 100}

RankThresholds == {-50, 0, 25, 50, 75, 100, 150}

ScoreVectors == UNION {[1..n -> RankScores] : n \in 1..MaxRows}

InitRanking ==
    /\ store = <<>>
    /\ next_id = 1
    /\ vectorizer = NoneVectorizer
    /\ tfidf_matrix = NoneMatrix
    /\ document_ids = <<>>
    /\ document_titles = <<>>
    /\ document_previews = <<>>
    /\ is_indexed = FALSE
    /\ tie_order \in TieOrders
    /\ changes = 0
    /\ call = [StoreOp("init") EXCEPT !.before = Cleared]
    /\ response = NoResponse
    /\ _retriever_instance = 1
    /\ instances = 1
    /\ pc = <<"105">>
    /\ questions = <<>>
    /\ _initialized = FALSE
    /\ \E s \in ScoreVectors :
          frame = <<[similarities |-> s, top_k |-> 0, min_score |-> 0, kept |-> <<>>]>>

(* lines 105-110: the indices the loop keeps, in the order it meets them *)
RankAndFilter(top_k, min_score) ==
    /\ pc[1] = "105"
    /\ frame' = [frame EXCEPT ![1].top_k = top_k,
                              ![1].min_score = min_score,
                              ![1].kept = Kept(frame[1].similarities,
                                               TopIndices(frame[1].similarities,
                                                          top_k, tie_order),
                                               min_score)]
    /\ pc' = <<"118">>
    /\ UNCHANGED <<_retriever_instance, instances, sequential_vars>>

(* the next call, on the same similarities *)
RankAgain ==
    /\ pc[1] = "118"
    /\ frame' = [frame EXCEPT ![1].top_k = 0, ![1].min_score = 0, ![1].kept = <<>>]
    /\ pc' = <<"105">>
    /\ UNCHANGED <<_retriever_instance, instances, sequential_vars>>

NextRanking ==
    \/ \E k \in 1..(MaxRows + 1), m \in RankThresholds : RankAndFilter(k, m)
    \/ RankAgain

SpecRanking == InitRanking /\ [][NextRanking]_vars

(* the specified order: the whole ranking filtered, then its first top_k *)
FilterThenTake(similarities, top_k, min_score, tie) ==
    Take(Kept(similarities,
              TopIndices(similarities, Len(similarities), tie),
              min_score),
         top_k)

(* C24: for every vector of scores, top_k >= 1 and min_score, taking the   *)
(* first top_k of the descending ranking and then dropping the scores      *)
(* under min_score gives the same sequence as dropping them from the whole *)
(* ranking and then taking the first top_k.                                *)
C24_OrderOfOperations ==
    pc[1] = "118" =>
        frame[1].kept = FilterThenTake(frame[1].similarities, frame[1].top_k,
                                       frame[1].min_score, tie_order)

(* the filter dropped an entry of the top_k slice and kept another *)
C24_Witness ==
    /\ pc[1] = "118"
    /\ frame[1].top_k <= Len(frame[1].similarities)
    /\ Len(frame[1].kept) >= 1
    /\ Len(frame[1].kept) < frame[1].top_k

-----------------------------------------------------------------------------
(* the results a thread's find_relevant returned name no document twice *)
DistinctIds(results) ==
    \A i, j \in DOMAIN results : results[i].document_id = results[j].document_id => i = j

(* a result is the id, title and preview of one row, as a build read it *)
OfOneRow(r) ==
    \E d \in DocInputs :
        /\ r.title = d.title
        /\ r.content_preview = Preview(d.content)
        /\ r.document_id \in 1..MaxId

(* C25: every RetrievalResult returned by find_relevant carries the id,    *)
(* title and preview of one position of an index built from one snapshot   *)
(* of the table, and no document id is twice in one list of results.       *)
C25_OnePositionOneId ==
    \A t \in Threads :
        (pc[t] = "idle" /\ frame[t].op = "find_relevant") =>
            /\ DistinctIds(frame[t].results)
            /\ \A i \in DOMAIN frame[t].results : OfOneRow(frame[t].results[i])

-----------------------------------------------------------------------------
(* C26: find_relevant and find_relevant_documents called on an index whose *)
(* is_indexed is true leave the vectorizer, the matrix, the three lists,   *)
(* is_indexed and document_count as they were, and do not read the table   *)
(* again, also when the table has changed since the build.                 *)
C26_QueryLeavesIndex ==
    [][(/\ call'.op \in {"find_relevant", "find_relevant_documents"}
        /\ is_indexed)
       => /\ UNCHANGED index_vars
          /\ call'.before = Self
          /\ Len(document_ids') = Len(document_ids)]_vars

(* a query on a built index whose table has been written to since *)
C26_Witness ==
    /\ call.op = "find_relevant_documents"
    /\ ~call.raised
    /\ call.before.is_indexed
    /\ call.before = Self
    /\ document_ids # StoreIds(store)
    /\ Len(call.results) >= 1

-----------------------------------------------------------------------------
(* the ids of the documents of a list of (document, score) pairs *)
IdsOf(pairs) == {pairs[i].doc.id : i \in DOMAIN pairs}

(* this step is a POST /api/ask/ that passed validation: it added one row, *)
(* listed first, and left the rows there were as they were                 *)
OneNewQuestion ==
    /\ Len(questions') = Len(questions) + 1
    /\ Tail(questions') = questions
    /\ \A q \in DOMAIN questions : questions'[1].id # questions[q].id

(* the row of a request answered 201 *)
AnsweredLaw(row, sent) ==
    /\ row.answer # <<>>
    /\ row.answer = <<sent.answer>>
    /\ row.answered_at # <<>>
    /\ row.related_documents = IdsOf(sent.documents)
    /\ row.related_documents = IdsOf(call'.resolved)

(* C21: every POST /api/ask/ that passes validation creates exactly one    *)
(* new Question row, holding the question as validated: the submitted text *)
(* without its leading and trailing whitespace. When the answer is 201     *)
(* the row has a non-null answer, answered_at set, and related_documents   *)
(* exactly the documents retrieved for the question in that call.          *)
C21_AskRecords ==
    [][(response'.view = "ask" /\ response'.status # 400) =>
          /\ OneNewQuestion
          /\ questions'[1].text = Strip(response'.request.question[1])
          /\ response'.status = 201 => AnsweredLaw(questions'[1], response')]_vars

(* C21 as stated: the row holds the text as it was submitted *)
C21_SubmittedText ==
    [][(response'.view = "ask" /\ response'.status # 400) =>
          /\ OneNewQuestion
          /\ questions'[1].text = response'.request.question[1]
          /\ response'.status = 201 => AnsweredLaw(questions'[1], response')]_vars

(* a padded question answered from a retrieved document *)
C21_Witness ==
    /\ response.view = "ask"
    /\ response.status = 201
    /\ response.request.question = <<" Cloud ai ">>
    /\ questions # <<>>
    /\ questions[1].text = "Cloud ai"
    /\ questions[1].related_documents # {}
    /\ questions[1].related_documents = IdsOf(response.documents)

-----------------------------------------------------------------------------
(* the row of a request whose answer_question raised *)
Unanswered(row) ==
    /\ row.answer = <<>>
    /\ row.answered_at = <<>>
    /\ row.related_documents = {}

(* C27: when answer_question raises inside POST /api/ask/, because the     *)
(* retrieval or the loading of the model failed, the view answers 500 and  *)
(* the Question row created at the start of the request stays in the table *)
(* with answer and answered_at null and no related documents.              *)
C27_FailedAskKeepsQuestion ==
    [][(/\ response'.view = "ask"
        /\ response'.status # 400
        /\ call'.raised \/ response'.llm = "unavailable" \/ response'.status = 500)
       => /\ response'.status = 500
          /\ OneNewQuestion
          /\ questions'[1].text = Strip(response'.request.question[1])
          /\ Unanswered(questions'[1])]_vars

(* a retrieval that raised while building the index for the question *)
C27_Witness ==
    /\ response.view = "ask"
    /\ response.status = 500
    /\ call.raised
    /\ store # <<>>
    /\ questions # <<>>
    /\ Unanswered(questions[1])

(* a model that could not be loaded after the documents were retrieved *)
C27_WitnessModel ==
    /\ response.view = "ask"
    /\ response.status = 500
    /\ response.llm = "unavailable"
    /\ ~call.raised
    /\ Len(call.resolved) >= 1
    /\ questions # <<>>
    /\ Unanswered(questions[1])

====
